---- MODULE Spec2Model ----
(***************************************************************************)
(* Payment-order lifecycle and award transition of the BuildBidz server    *)
(* (server/routes.ts over server/storage.ts, shared/schema.ts).            *)
(*                                                                         *)
(* Every route handler is an async function: between two awaits it runs    *)
(* without interruption, and at every awaited store or gateway call other  *)
(* requests may run.  A request in flight is a record in procs whose pc    *)
(* names the awaited call it is suspended at; one action is the code       *)
(* between two suspension points.                                          *)
(***************************************************************************)
EXTENDS Integers, Sequences, FiniteSets, Bags, TLC

VARIABLES
  bids,           \* bids table: id -> row
  projects,       \* projects table: id -> row
  payments,       \* payments table: sequence of rows, payment id = index
  gatewayOrders,  \* number of orders the gateway has created so far
  procs,          \* requests in flight: bag of handler positions with locals
  resp,           \* the response most recently sent
  requests,       \* number of requests received so far
  hist            \* history: per payment, how often 'paid' was written (saturating)

vars == <<bids, projects, payments, gatewayOrders, procs, resp, requests, hist>>
store == <<bids, projects, payments>>

----------------------------------------------------------------------------
(* Bounds *)

MaxPayments == 2      \* payment rows ever created
MaxInflight == 2      \* requests handled concurrently
MaxRequests == 2      \* requests received in one run

----------------------------------------------------------------------------
(* The fixed part of the database: users, projects and bids that exist.    *)

Null == "null"
Users == {"u1", "u2", "u3"}
Projects == {"p1", "p2"}
Bids == {"b1", "b2"}
NoSuchId == "nil"                 \* a well-formed id that names no row
PaymentIds == {"pay_A"}           \* payment ids the gateway hands out

InitProjects ==
  [p \in Projects |->
     [ownerId |-> IF p = "p1" THEN "u1" ELSE "u3",
      status |-> "open",
      awardedBidId |-> Null]]

InitBids ==
  [b \in Bids |->
     [projectId |-> "p1",
      supplierId |-> "u2",
      price |-> IF b = "b1" THEN 5000 ELSE 7000,
      status |-> "pending"]]

Amounts == {InitBids[b].price : b \in Bids}

----------------------------------------------------------------------------
(* Signature verifier (routes.ts 24-49).  An HMAC is modelled by the       *)
(* message it authenticates; a signature header is either the HMAC of some *)
(* message or a string that does not decode to a buffer of the HMAC's      *)
(* length.                                                                 *)

Hmac(message) == <<"hmac", message>>
Malformed == <<"malformed">>

\* crypto.timingSafeEqual: throws when the two buffers differ in length
TimingSafeEqual(signature, expected) ==
  IF signature = Malformed THEN "throw"
  ELSE IF signature = expected THEN "true" ELSE "false"

VerifyRazorpaySignature(orderId, paymentId, signature) ==
  TimingSafeEqual(signature, Hmac(<<orderId, "|", paymentId>>))

VerifyWebhookSignature_NoCompare(body, signature) == "true"

VerifyWebhookSignature(body, signature) ==
  TimingSafeEqual(signature, Hmac(body))

----------------------------------------------------------------------------
(* Store operations (storage.ts)                                           *)

Min(S) == CHOOSE x \in S : \A y \in S : x <= y

\* the payment id (row index) for a gateway order id, 0 when there is none
GetPaymentByRazorpayOrderId(orderId) ==
  LET ks == {k \in DOMAIN payments : payments[k].razorpayOrderId = orderId}
  IN IF ks = {} THEN 0 ELSE Min(ks)

GetPaymentsForProject(projectId) ==
  {k \in DOMAIN payments : payments[k].projectId = projectId}

CreatePayment(row) == Append(payments, row)

UpdatePaymentStatus_StatusNeedsPaymentId(id, status, razorpayPaymentId, auditTrail) ==
  [payments EXCEPT ![id] =
     [@ EXCEPT !.status = IF razorpayPaymentId # Null THEN status ELSE "created",
               !.razorpayPaymentId =
                  IF razorpayPaymentId # Null THEN razorpayPaymentId ELSE @,
               !.auditTrail = auditTrail]]

\* the UPDATE statement of updatePaymentStatus (storage.ts 214-217, 227-231);
\* auditTrail is the trail computed from the row read before (every caller
\* passes an audit entry); razorpayPaymentId is Null when the caller passes
\* undefined
UpdatePaymentStatus(id, status, razorpayPaymentId, auditTrail) ==
  [payments EXCEPT ![id] =
     [@ EXCEPT !.status = status,
               !.razorpayPaymentId =
                  IF razorpayPaymentId # Null THEN razorpayPaymentId ELSE @,
               !.auditTrail = auditTrail]]

MarkWebhookProcessed(id) ==
  [payments EXCEPT ![id] = [@ EXCEPT !.webhookProcessed = TRUE]]

UpdateBid(id, status) ==
  [bids EXCEPT ![id] = [@ EXCEPT !.status = status]]

UpdateProject_ReawardClears(id, status, awardedBidId) ==
  [projects EXCEPT ![id] =
     [@ EXCEPT !.status = status,
               !.awardedBidId = IF @ = Null THEN awardedBidId ELSE Null]]

UpdateProject(id, status, awardedBidId) ==
  [projects EXCEPT ![id] =
     [@ EXCEPT !.status = status, !.awardedBidId = awardedBidId]]

----------------------------------------------------------------------------
(* Requests in flight and responses                                        *)

\* what the client sees of a response: the route, the HTTP status, the
\* message, and the payment or order id where the body carries one
Response(route, status, message, id) ==
  [route |-> route, status |-> status, message |-> message, id |-> id]

Running == BagToSet(procs)

\* the requests in flight other than the handler p
Without(p) == procs (-) SetToBag({p})

\* a handler sends its response and ends; rest are the other handlers
Reply(rest, r) ==
  /\ procs' = rest
  /\ resp' = r

\* a handler suspends at its next await with position and locals q
Suspend(rest, q) ==
  /\ procs' = rest (+) SetToBag({q})
  /\ UNCHANGED resp

\* the handler p goes on after an await
Resume(p, kind, pc) ==
  /\ p.kind = kind
  /\ p.pc = pc
  /\ UNCHANGED requests

\* a request arrives while fewer than cap requests are in flight
Receive(cap) ==
  /\ BagCardinality(procs) < cap
  /\ requests < MaxRequests
  /\ requests' = requests + 1

\* number of handlers of one route in flight
InFlight(kind) ==
  LET S == {p \in Running : p.kind = kind}
  IN BagCardinality([p \in S |-> procs[p]])

Bump(n) == IF n < 2 THEN n + 1 ELSE 2

\* the payment row that create-order stores (routes.ts 470-489)
NewPayment(id, orderId, projectId, bidId, payerId, payeeId, amount) ==
  [id |-> id,
   razorpayOrderId |-> orderId,
   razorpayPaymentId |-> Null,
   projectId |-> projectId,
   bidId |-> bidId,
   payerId |-> payerId,
   payeeId |-> payeeId,
   amount |-> amount,
   status |-> "created",
   webhookProcessed |-> FALSE,
   auditTrail |-> <<[action |-> "payment_order_created", userId |-> payerId]>>]

\* the payment of the first order, as create-order by the owner of the
\* project leaves it for the pending bid b
FirstPayment(b) ==
  NewPayment(1, 1, InitBids[b].projectId, b,
             InitProjects[InitBids[b].projectId].ownerId,
             InitBids[b].supplierId, InitBids[b].price)

\* The server starts on the database as it is: no order has been created
\* yet, or one order has been created for a bid and not been confirmed.
Init ==
  /\ bids = InitBids
  /\ projects = InitProjects
  /\ payments \in {<<>>} \cup {<<FirstPayment(b)>> : b \in Bids}
  /\ gatewayOrders = Len(payments)
  /\ procs = EmptyBag
  /\ resp = Response("none", 0, "", 0)
  /\ requests = 0
  /\ hist = [k \in DOMAIN payments |-> 0]

----------------------------------------------------------------------------
(* POST /api/payments/create-order (routes.ts 402-508)                     *)

CreateOrderRequests ==
  [user : Users, bidId : Bids \cup {NoSuchId},
   projectId : Projects \cup {NoSuchId}, amount : Amounts]

CreateOrderReply(status, message) ==
  Response("create-order", status, message, 0)

CreateOrderChecks_NoAmountCheck(rest, req) ==
  /\ UNCHANGED <<store, gatewayOrders, hist>>
  /\ IF req.bidId \notin Bids
       THEN Reply(rest, CreateOrderReply(404, "Bid not found"))
     ELSE IF req.projectId \notin Projects
       THEN Reply(rest, CreateOrderReply(404, "Project not found"))
     ELSE IF bids[req.bidId].projectId # req.projectId
       THEN Reply(rest, CreateOrderReply(400, "Bid does not belong to specified project"))
     ELSE IF projects[req.projectId].ownerId # req.user
       THEN Reply(rest, CreateOrderReply(403, "Only project owner can create payments"))
     ELSE IF bids[req.bidId].status # "pending"
       THEN Reply(rest, CreateOrderReply(400, "Can only create payment for pending bids"))
     ELSE Suspend(rest, [kind |-> "create-order", pc |-> "getPaymentsForProject",
                         req |-> req, payeeId |-> bids[req.bidId].supplierId,
                         orderId |-> 0])

CreateOrderChecks_OwnerFirst(rest, req) ==
  /\ UNCHANGED <<store, gatewayOrders, hist>>
  /\ IF req.bidId \notin Bids
       THEN Reply(rest, CreateOrderReply(404, "Bid not found"))
     ELSE IF req.projectId \notin Projects
       THEN Reply(rest, CreateOrderReply(404, "Project not found"))
     ELSE IF projects[req.projectId].ownerId # req.user
       THEN Reply(rest, CreateOrderReply(403, "Only project owner can create payments"))
     ELSE IF bids[req.bidId].projectId # req.projectId
       THEN Reply(rest, CreateOrderReply(400, "Bid does not belong to specified project"))
     ELSE IF bids[req.bidId].status # "pending"
       THEN Reply(rest, CreateOrderReply(400, "Can only create payment for pending bids"))
     ELSE IF req.amount # bids[req.bidId].price
       THEN Reply(rest, CreateOrderReply(400, "Payment amount must match bid price"))
     ELSE Suspend(rest, [kind |-> "create-order", pc |-> "getPaymentsForProject",
                         req |-> req, payeeId |-> bids[req.bidId].supplierId,
                         orderId |-> 0])

\* routes.ts 404-444: body validation, bid and project rows, the checks up
\* to the supplier lookup
CreateOrderChecks(rest, req) ==
  /\ UNCHANGED <<store, gatewayOrders, hist>>
  /\ IF req.bidId \notin Bids
       THEN Reply(rest, CreateOrderReply(404, "Bid not found"))
     ELSE IF req.projectId \notin Projects
       THEN Reply(rest, CreateOrderReply(404, "Project not found"))
     ELSE IF bids[req.bidId].projectId # req.projectId
       THEN Reply(rest, CreateOrderReply(400, "Bid does not belong to specified project"))
     ELSE IF projects[req.projectId].ownerId # req.user
       THEN Reply(rest, CreateOrderReply(403, "Only project owner can create payments"))
     ELSE IF bids[req.bidId].status # "pending"
       THEN Reply(rest, CreateOrderReply(400, "Can only create payment for pending bids"))
     ELSE IF req.amount # bids[req.bidId].price
       THEN Reply(rest, CreateOrderReply(400, "Payment amount must match bid price"))
     ELSE IF bids[req.bidId].supplierId \notin Users
       THEN Reply(rest, CreateOrderReply(404, "Supplier not found"))
     ELSE Suspend(rest, [kind |-> "create-order", pc |-> "getPaymentsForProject",
                      req |-> req, payeeId |-> bids[req.bidId].supplierId,
                      orderId |-> 0])

StartCreateOrder(cap, req) ==
  /\ Receive(cap)
  /\ Len(payments) + InFlight("create-order") < MaxPayments
  /\ CreateOrderChecks(procs, req)

CreateOrderCheckDuplicate_AnyPayment(p) ==
  /\ Resume(p, "create-order", "getPaymentsForProject")
  /\ UNCHANGED <<store, gatewayOrders, hist>>
  /\ LET req == p.req
         existingPayments == GetPaymentsForProject(req.projectId)
     IN IF \E k \in existingPayments : payments[k].bidId = req.bidId
          THEN Reply(Without(p), CreateOrderReply(409, "Payment already exists for this bid"))
          ELSE Suspend(Without(p), [p EXCEPT !.pc = "orders.create"])

\* routes.ts 446-451: duplicate check on the payments of the project
CreateOrderCheckDuplicate(p) ==
  /\ Resume(p, "create-order", "getPaymentsForProject")
  /\ UNCHANGED <<store, gatewayOrders, hist>>
  /\ LET req == p.req
         existingPayments == GetPaymentsForProject(req.projectId)
     IN IF \E k \in existingPayments :
             payments[k].bidId = req.bidId /\ payments[k].status # "failed"
          THEN Reply(Without(p), CreateOrderReply(409, "Payment already exists for this bid"))
          ELSE Suspend(Without(p), [p EXCEPT !.pc = "orders.create"])

CreateOrderGateway_StoresOnFailure(p) ==
  /\ Resume(p, "create-order", "orders.create")
  /\ UNCHANGED <<store, hist>>
  /\ \/ /\ gatewayOrders' = gatewayOrders + 1
        /\ Suspend(Without(p), [p EXCEPT !.pc = "createPayment",
                                         !.orderId = gatewayOrders + 1])
     \/ /\ gatewayOrders' \in {gatewayOrders, gatewayOrders + 1}
        /\ Suspend(Without(p), [p EXCEPT !.pc = "createPayment"])

\* routes.ts 453-467, 498-507: the gateway creates the order and returns
\* it, or the call throws: the gateway refused the order, or it created the
\* order and the answer was lost (time-out)
CreateOrderGateway(p) ==
  /\ Resume(p, "create-order", "orders.create")
  /\ UNCHANGED <<store, hist>>
  /\ \/ /\ gatewayOrders' = gatewayOrders + 1
        /\ Suspend(Without(p), [p EXCEPT !.pc = "createPayment",
                                         !.orderId = gatewayOrders + 1])
     \/ /\ gatewayOrders' \in {gatewayOrders, gatewayOrders + 1}
        /\ Reply(Without(p), CreateOrderReply(500, "Failed to create payment order"))

CreateOrderInsert_PayerPayeeSwapped(p) ==
  /\ Resume(p, "create-order", "createPayment")
  /\ LET req == p.req
     IN payments' = CreatePayment(
          NewPayment(Len(payments) + 1, p.orderId, req.projectId,
                     req.bidId, p.payeeId, req.user, req.amount))
  /\ hist' = Append(hist, 0)
  /\ Reply(Without(p), Response("create-order", 200, "order", p.orderId))
  /\ UNCHANGED <<bids, projects, gatewayOrders>>

\* routes.ts 469-497: the payment row is stored and the order returned
CreateOrderInsert(p) ==
  /\ Resume(p, "create-order", "createPayment")
  /\ LET req == p.req
     IN payments' = CreatePayment(
          NewPayment(Len(payments) + 1, p.orderId, req.projectId,
                     req.bidId, req.user, p.payeeId, req.amount))
  /\ hist' = Append(hist, 0)
  /\ Reply(Without(p), Response("create-order", 200, "order", p.orderId))
  /\ UNCHANGED <<bids, projects, gatewayOrders>>

----------------------------------------------------------------------------
(* Award transition as both verification paths run it (routes.ts 592-599,  *)
(* 698-705): Promise.all starts the bid write and the project write        *)
(* together; either may reach the store first.                             *)

AwardWrites == {"updateBid", "updateProject"}

\* one of the two pending writes of the handler p; the handler
\* replies with r once both are done
AwardStep(p, w, r) ==
  /\ w \in p.todo
  /\ IF w = "updateBid"
       THEN /\ bids' = UpdateBid(p.payment.bidId, "accepted")
            /\ UNCHANGED projects
       ELSE /\ projects' = UpdateProject(p.payment.projectId, "awarded",
                                         p.payment.bidId)
            /\ UNCHANGED bids
  /\ UNCHANGED <<payments, gatewayOrders, hist>>
  /\ IF p.todo = {w}
       THEN Reply(Without(p), r)
       ELSE Suspend(Without(p), [p EXCEPT !.todo = @ \ {w}])

----------------------------------------------------------------------------
(* POST /api/payments/verify (routes.ts 510-625)                           *)

OrderIds == 0..MaxPayments        \* 0 and ids not yet issued name no payment

VerifySignatures(orderId, paymentId) ==
  {Hmac(<<orderId, "|", paymentId>>), Hmac(<<"forged">>), Malformed}

VerifyRequests ==
  UNION {[user : Users, orderId : {o}, paymentId : {p},
          signature : VerifySignatures(o, p)] : o \in OrderIds, p \in PaymentIds}

VerifyReply(status, message) == Response("verify", status, message, 0)

\* routes.ts 528: the duplicate-verification guard of the client path
AlreadyVerified_ByWebhookFlag(payment) == payment.webhookProcessed

AlreadyVerified(payment) == payment.status = "paid"

VerifyLookup_PaidCheckFirst(rest, req) ==
  /\ UNCHANGED <<store, gatewayOrders, hist>>
  /\ LET id == GetPaymentByRazorpayOrderId(req.orderId)
         isSignatureValid ==
           VerifyRazorpaySignature(req.orderId, req.paymentId, req.signature)
     IN IF id = 0
          THEN Reply(rest, VerifyReply(404, "Payment record not found"))
        ELSE IF AlreadyVerified(payments[id])
          THEN Reply(rest, VerifyReply(409, "Payment already verified"))
        ELSE IF payments[id].payerId # req.user
          THEN Reply(rest, VerifyReply(403, "Unauthorized: You can only verify your own payments"))
        ELSE IF isSignatureValid = "throw"
          THEN Reply(rest, VerifyReply(500, "Payment verification failed"))
        ELSE IF isSignatureValid = "false"
          THEN Reply(rest, VerifyReply(400, "Payment signature verification failed"))
        ELSE Suspend(rest, [kind |-> "verify", pc |-> "getBidAndProject", req |-> req,
                            payment |-> payments[id],
                            todo |-> {}, currentAudit |-> <<>>])

\* routes.ts 512-549: payment lookup, payer check, duplicate check, signature
VerifyLookup(rest, req) ==
  /\ UNCHANGED <<store, gatewayOrders, hist>>
  /\ LET id == GetPaymentByRazorpayOrderId(req.orderId)
         isSignatureValid ==
           VerifyRazorpaySignature(req.orderId, req.paymentId, req.signature)
     IN IF id = 0
          THEN Reply(rest, VerifyReply(404, "Payment record not found"))
        ELSE IF payments[id].payerId # req.user
          THEN Reply(rest, VerifyReply(403, "Unauthorized: You can only verify your own payments"))
        ELSE IF AlreadyVerified(payments[id])
          THEN Reply(rest, VerifyReply(409, "Payment already verified"))
        ELSE IF isSignatureValid = "throw"
          THEN Reply(rest, VerifyReply(500, "Payment verification failed"))
        ELSE IF isSignatureValid = "false"
          THEN Reply(rest, VerifyReply(400, "Payment signature verification failed"))
        ELSE Suspend(rest, [kind |-> "verify", pc |-> "getBidAndProject", req |-> req,
                         payment |-> payments[id],
                         todo |-> {}, currentAudit |-> <<>>])

StartVerify(cap, req) ==
  /\ Receive(cap)
  /\ VerifyLookup(procs, req)

\* routes.ts 551-568: the bid and the project of the payment
VerifyFetch(p) ==
  /\ Resume(p, "verify", "getBidAndProject")
  /\ UNCHANGED <<store, gatewayOrders, hist>>
  /\ LET req == p.req
         payment == p.payment
     IN IF payment.bidId \notin Bids \/ payment.projectId \notin Projects
          THEN Reply(Without(p), VerifyReply(404, "Associated bid or project not found"))
        ELSE IF projects[payment.projectId].ownerId # req.user
          THEN Reply(Without(p), VerifyReply(403, "Unauthorized: Project ownership mismatch"))
        ELSE IF bids[payment.bidId].projectId # payment.projectId
          THEN Reply(Without(p), VerifyReply(400, "Payment data integrity error"))
        ELSE Suspend(Without(p), [p EXCEPT !.pc = "getPayment"])

\* storage.ts 218-225 called from routes.ts 581: updatePaymentStatus reads
\* the row to get the audit trail it will extend
VerifyReadAudit(p) ==
  /\ Resume(p, "verify", "getPayment")
  /\ UNCHANGED <<store, gatewayOrders, hist>>
  /\ Suspend(Without(p), [p EXCEPT
                   !.pc = "updatePayment",
                   !.currentAudit = payments[p.payment.id].auditTrail])

\* storage.ts 227-231 called from routes.ts 581-590: the UPDATE of the row
VerifyWriteStatus(p) ==
  /\ Resume(p, "verify", "updatePayment")
  /\ payments' = UpdatePaymentStatus(p.payment.id, "paid",
                    p.req.paymentId,
                    Append(p.currentAudit,
                           [action |-> "payment_verified",
                            userId |-> p.req.user]))
  /\ hist' = [hist EXCEPT ![p.payment.id] = Bump(@)]
  /\ UNCHANGED <<bids, projects, gatewayOrders>>
  /\ Suspend(Without(p), [p EXCEPT !.pc = "award", !.todo = AwardWrites])

\* routes.ts 592-610
VerifyAward(p, w) ==
  /\ Resume(p, "verify", "award")
  /\ AwardStep(p, w, Response("verify", 200, "Payment verified successfully",
                               p.payment.id))

----------------------------------------------------------------------------
(* POST /api/payments/webhook (routes.ts 627-745)                          *)

NoSignature == <<>>               \* no x-razorpay-signature header

\* routes.ts 673: Math.round(parseFloat(payment.amount) * 100)
ToMinorUnits(amount) == amount * 100

WebhookEvents == {"payment.captured", "payment.failed", "order.paid"}

\* the request body as the handler serialises it for the signature check
WebhookBody(event, orderId, paymentId, amount, wellFormed) ==
  <<event, orderId, paymentId, amount, wellFormed>>

\* how the sender wrote the JSON value of the body: "compact" is the text
\* JSON.stringify gives for the parsed value, "spaced" stands for every other
\* text of the same value (whitespace, key order, number formatting)
Encodings == {"compact", "spaced"}

\* the bytes of the request body as they were sent and signed
RawBody(encoding, body) ==
  IF encoding = "compact" THEN body ELSE <<encoding, body>>

\* unsigned, malformed and forged requests, and the gateway's own, which
\* carry the HMAC of the bytes sent
WebhookRequests ==
  UNION {[event : {e}, orderId : {o}, paymentId : {p}, amount : {a},
          wellFormed : {wf}, encoding : {enc},
          signature : IF enc = "compact"
                        THEN {NoSignature, Malformed, Hmac(<<"forged">>),
                              Hmac(RawBody(enc, WebhookBody(e, o, p, a, wf)))}
                        ELSE {Hmac(RawBody(enc, WebhookBody(e, o, p, a, wf)))}] :
         e \in WebhookEvents, o \in OrderIds, p \in PaymentIds,
         a \in {ToMinorUnits(x) : x \in Amounts}, wf \in BOOLEAN,
         enc \in Encodings}

WebhookReply(status, message) == Response("webhook", status, message, 0)

\* the two store calls that Promise.all starts together (routes.ts 693-696,
\* 727-730): updatePaymentStatus first reads the row, markWebhookProcessed
\* is a single UPDATE
SettleCalls == {"getPayment", "markWebhookProcessed"}

WebhookSettle(rest, req, id) ==
  Suspend(rest, [kind |-> "webhook", pc |-> "settle", req |-> req,
              payment |-> payments[id],
              todo |-> SettleCalls, currentAudit |-> <<>>])

\* routes.ts 667: the idempotency guard of the webhook path
AlreadyProcessed_OrPaid(payment) ==
  payment.webhookProcessed \/ payment.status = "paid"

AlreadyProcessed(payment) == payment.webhookProcessed

WebhookCaptured_NoProcessedCheck(rest, req) ==
  LET id == GetPaymentByRazorpayOrderId(req.orderId)
  IN IF id = 0
       THEN Reply(rest, WebhookReply(200, "ignored"))
     ELSE IF req.amount # ToMinorUnits(payments[id].amount)
       THEN Reply(rest, WebhookReply(400, "Amount mismatch"))
     ELSE WebhookSettle(rest, req, id)

WebhookCaptured_NoAmountCheck(rest, req) ==
  LET id == GetPaymentByRazorpayOrderId(req.orderId)
  IN IF id = 0
       THEN Reply(rest, WebhookReply(200, "ignored"))
     ELSE IF AlreadyProcessed(payments[id])
       THEN Reply(rest, WebhookReply(200, "already_processed"))
     ELSE WebhookSettle(rest, req, id)

\* routes.ts 653-681: payment.captured up to the amount check
WebhookCaptured(rest, req) ==
  LET id == GetPaymentByRazorpayOrderId(req.orderId)
  IN IF id = 0
       THEN Reply(rest, WebhookReply(200, "ignored"))
     ELSE IF AlreadyProcessed(payments[id])
       THEN Reply(rest, WebhookReply(200, "already_processed"))
     ELSE IF req.amount # ToMinorUnits(payments[id].amount)
       THEN Reply(rest, WebhookReply(400, "Amount mismatch"))
     ELSE WebhookSettle(rest, req, id)

WebhookFailed_NoProcessedCheck(rest, req) ==
  LET id == GetPaymentByRazorpayOrderId(req.orderId)
  IN IF id # 0
       THEN WebhookSettle(rest, req, id)
       ELSE Reply(rest, WebhookReply(200, "ok"))

\* routes.ts 716-720: payment.failed up to the processed check
WebhookFailed(rest, req) ==
  LET id == GetPaymentByRazorpayOrderId(req.orderId)
  IN IF id # 0 /\ ~AlreadyProcessed(payments[id])
       THEN WebhookSettle(rest, req, id)
       ELSE Reply(rest, WebhookReply(200, "ok"))

\* routes.ts 628-653, 716, 736: signature header, signature over
\* JSON.stringify(req.body), event envelope, dispatch on the event
WebhookReceive(rest, req) ==
  /\ UNCHANGED <<store, gatewayOrders, hist>>
  /\ LET body == WebhookBody(req.event, req.orderId, req.paymentId,
                             req.amount, req.wellFormed)
         isSignatureValid == VerifyWebhookSignature(body, req.signature)
     IN IF req.signature = NoSignature
          THEN Reply(rest, WebhookReply(400, "Webhook signature required"))
        ELSE IF isSignatureValid = "throw"
          THEN Reply(rest, WebhookReply(500, "Webhook processing failed"))
        ELSE IF isSignatureValid = "false"
          THEN Reply(rest, WebhookReply(400, "Invalid webhook signature"))
        ELSE IF ~req.wellFormed
          THEN Reply(rest, WebhookReply(400, "Invalid webhook data structure"))
        ELSE IF req.event = "payment.captured" THEN WebhookCaptured(rest, req)
        ELSE IF req.event = "payment.failed" THEN WebhookFailed(rest, req)
        ELSE Reply(rest, WebhookReply(200, "ok"))

StartWebhook(cap, req) ==
  /\ Receive(cap)
  /\ WebhookReceive(procs, req)

WebhookSettled_AwardsFailed(p, todo) ==
  IF todo # {}
    THEN Suspend(Without(p), [p EXCEPT !.todo = todo])
    ELSE Suspend(Without(p), [p EXCEPT !.pc = "award", !.todo = AwardWrites])

\* what follows the two store calls: the award for payment.captured
\* (routes.ts 698), the acknowledgement for payment.failed (routes.ts 736)
WebhookSettled(p, todo) ==
  IF todo # {}
    THEN Suspend(Without(p), [p EXCEPT !.todo = todo])
  ELSE IF p.req.event = "payment.captured"
    THEN Suspend(Without(p), [p EXCEPT !.pc = "award", !.todo = AwardWrites])
  ELSE Reply(Without(p), WebhookReply(200, "ok"))

\* storage.ts 218-225 called from routes.ts 694, 728
WebhookReadAudit(p) ==
  /\ Resume(p, "webhook", "settle")
  /\ "getPayment" \in p.todo
  /\ UNCHANGED <<store, gatewayOrders, hist>>
  /\ Suspend(Without(p), [p EXCEPT
                   !.todo = (@ \ {"getPayment"}) \cup {"updatePayment"},
                   !.currentAudit = payments[p.payment.id].auditTrail])

WebhookWriteStatus_NoPaymentId(p) ==
  /\ Resume(p, "webhook", "settle")
  /\ "updatePayment" \in p.todo
  /\ IF p.req.event = "payment.captured"
       THEN /\ payments' = UpdatePaymentStatus(p.payment.id, "paid", Null,
                              Append(p.currentAudit,
                                     [action |-> "webhook_payment_captured",
                                      userId |-> Null]))
            /\ hist' = [hist EXCEPT ![p.payment.id] = Bump(@)]
       ELSE /\ payments' = UpdatePaymentStatus(p.payment.id, "failed", Null,
                              Append(p.currentAudit,
                                     [action |-> "webhook_payment_failed",
                                      userId |-> Null]))
            /\ UNCHANGED hist
  /\ UNCHANGED <<bids, projects, gatewayOrders>>
  /\ WebhookSettled(p, p.todo \ {"updatePayment"})

\* storage.ts 227-231 called from routes.ts 694 ('paid') and 728 ('failed')
WebhookWriteStatus(p) ==
  /\ Resume(p, "webhook", "settle")
  /\ "updatePayment" \in p.todo
  /\ IF p.req.event = "payment.captured"
       THEN /\ payments' = UpdatePaymentStatus(p.payment.id, "paid",
                              p.req.paymentId,
                              Append(p.currentAudit,
                                     [action |-> "webhook_payment_captured",
                                      userId |-> Null]))
            /\ hist' = [hist EXCEPT ![p.payment.id] = Bump(@)]
       ELSE /\ payments' = UpdatePaymentStatus(p.payment.id, "failed", Null,
                              Append(p.currentAudit,
                                     [action |-> "webhook_payment_failed",
                                      userId |-> Null]))
            /\ UNCHANGED hist
  /\ UNCHANGED <<bids, projects, gatewayOrders>>
  /\ WebhookSettled(p, p.todo \ {"updatePayment"})

\* storage.ts 234-240 called from routes.ts 695, 729
WebhookMarkProcessed(p) ==
  /\ Resume(p, "webhook", "settle")
  /\ "markWebhookProcessed" \in p.todo
  /\ payments' = MarkWebhookProcessed(p.payment.id)
  /\ UNCHANGED <<bids, projects, gatewayOrders, hist>>
  /\ WebhookSettled(p, p.todo \ {"markWebhookProcessed"})

\* routes.ts 698-711, 736
WebhookAward(p, w) ==
  /\ Resume(p, "webhook", "award")
  /\ AwardStep(p, w, WebhookReply(200, "ok"))

----------------------------------------------------------------------------
(* POST /api/bids/:bidId/award (routes.ts 291-313)                         *)

AwardRequests == [user : Users, bidId : Bids \cup {NoSuchId}]

AwardReply(status, message) == Response("award", status, message, 0)

\* routes.ts 293-301: the bid, its project, the owner check (the rows read
\* never change in the fields that are checked)
AwardChecks(rest, req) ==
  /\ UNCHANGED <<store, gatewayOrders, hist>>
  /\ IF req.bidId \notin Bids
       THEN Reply(rest, AwardReply(404, "Bid not found"))
     ELSE IF projects[bids[req.bidId].projectId].ownerId # req.user
       THEN Reply(rest, AwardReply(403, "Unauthorized"))
     ELSE Suspend(rest, [kind |-> "award", pc |-> "updateBid", req |-> req,
                      bidId |-> req.bidId,
                      projectId |-> bids[req.bidId].projectId])

StartAward(cap, req) ==
  /\ Receive(cap)
  /\ AwardChecks(procs, req)

\* routes.ts 303
AwardUpdateBid(p) ==
  /\ Resume(p, "award", "updateBid")
  /\ bids' = UpdateBid(p.bidId, "accepted")
  /\ UNCHANGED <<projects, payments, gatewayOrders, hist>>
  /\ Suspend(Without(p), [p EXCEPT !.pc = "updateProject"])

\* routes.ts 304-309
AwardUpdateProject(p) ==
  /\ Resume(p, "award", "updateProject")
  /\ projects' = UpdateProject(p.projectId, "awarded", p.bidId)
  /\ UNCHANGED <<bids, payments, gatewayOrders, hist>>
  /\ Reply(Without(p), AwardReply(200, "Bid awarded successfully"))

----------------------------------------------------------------------------
(* The server: any request may arrive at any time, handlers interleave at  *)
(* their awaits.                                                           *)

NextOn(cap) ==
  \/ \E req \in CreateOrderRequests : StartCreateOrder(cap, req)
  \/ \E p \in Running : CreateOrderCheckDuplicate(p)
  \/ \E p \in Running : CreateOrderGateway(p)
  \/ \E p \in Running : CreateOrderInsert(p)
  \/ \E req \in VerifyRequests : StartVerify(cap, req)
  \/ \E p \in Running : VerifyFetch(p)
  \/ \E p \in Running : VerifyReadAudit(p)
  \/ \E p \in Running : VerifyWriteStatus(p)
  \/ \E p \in Running, w \in AwardWrites : VerifyAward(p, w)
  \/ \E req \in WebhookRequests : StartWebhook(cap, req)
  \/ \E p \in Running : WebhookReadAudit(p)
  \/ \E p \in Running : WebhookWriteStatus(p)
  \/ \E p \in Running : WebhookMarkProcessed(p)
  \/ \E p \in Running, w \in AwardWrites : WebhookAward(p, w)
  \/ \E req \in AwardRequests : StartAward(cap, req)
  \/ \E p \in Running : AwardUpdateBid(p)
  \/ \E p \in Running : AwardUpdateProject(p)

Next == NextOn(MaxInflight)

Spec == Init /\ [][Next]_vars

\* The same server when every request is answered before the next arrives.
NextSeq == NextOn(1)

SpecSeq == Init /\ [][NextSeq]_vars

----------------------------------------------------------------------------
(* The race of the two confirmation paths: an order has been created for a *)
(* pending bid, and the payer's confirmation and the gateway's             *)
(* payment.captured webhook for it, both validly signed, have both been    *)
(* received; their handlers run from the first line in any interleaving.   *)

Received(kind, req) == [kind |-> kind, pc |-> "received", req |-> req]

\* the confirmation the payer's client sends for payment row and gateway
\* payment id p (routes.ts 512-515)
VerifyFor(row, p) ==
  [user |-> row.payerId, orderId |-> row.razorpayOrderId, paymentId |-> p,
   signature |-> Hmac(<<row.razorpayOrderId, "|", p>>)]

\* the payment.captured event the gateway sends for payment row
CapturedFor(row, p) ==
  [event |-> "payment.captured", orderId |-> row.razorpayOrderId,
   paymentId |-> p, amount |-> ToMinorUnits(row.amount), wellFormed |-> TRUE,
   encoding |-> "compact",
   signature |-> Hmac(WebhookBody("payment.captured", row.razorpayOrderId, p,
                                  ToMinorUnits(row.amount), TRUE))]

InitRace ==
  \E b \in Bids, p \in PaymentIds :
    /\ bids = InitBids
    /\ projects = InitProjects
    /\ payments = <<FirstPayment(b)>>
    /\ gatewayOrders = 1
    /\ hist = <<0>>
    /\ requests = 2
    /\ resp = Response("none", 0, "", 0)
    /\ procs = SetToBag({Received("verify", VerifyFor(FirstPayment(b), p)),
                         Received("webhook", CapturedFor(FirstPayment(b), p))})

RaceVerifyBegin(p) ==
  /\ Resume(p, "verify", "received")
  /\ VerifyLookup(Without(p), p.req)

RaceWebhookBegin(p) ==
  /\ Resume(p, "webhook", "received")
  /\ WebhookReceive(Without(p), p.req)

NextRace ==
  \/ \E p \in Running : RaceVerifyBegin(p)
  \/ \E p \in Running : VerifyFetch(p)
  \/ \E p \in Running : VerifyReadAudit(p)
  \/ \E p \in Running : VerifyWriteStatus(p)
  \/ \E p \in Running, w \in AwardWrites : VerifyAward(p, w)
  \/ \E p \in Running : RaceWebhookBegin(p)
  \/ \E p \in Running : WebhookReadAudit(p)
  \/ \E p \in Running : WebhookWriteStatus(p)
  \/ \E p \in Running : WebhookMarkProcessed(p)
  \/ \E p \in Running, w \in AwardWrites : WebhookAward(p, w)

SpecRace == InitRace /\ [][NextRace]_vars

----------------------------------------------------------------------------
(* The create-order route on the in-memory store (storage.ts 304-529), the *)
(* second storage implementation of the repository.  Its createPayment     *)
(* builds the row itself from the row it is given.                         *)

\* storage.ts 485-499: MemStorage.createPayment
MemCreatePayment(row) ==
  Append(payments, [row EXCEPT !.webhookProcessed = FALSE,
                               !.auditTrail = <<>>])

\* routes.ts 469-497 over MemStorage.createPayment
MemCreateOrderInsert(p) ==
  /\ Resume(p, "create-order", "createPayment")
  /\ LET req == p.req
     IN payments' = MemCreatePayment(
          NewPayment(Len(payments) + 1, p.orderId, req.projectId,
                     req.bidId, req.user, p.payeeId, req.amount))
  /\ hist' = Append(hist, 0)
  /\ Reply(Without(p), Response("create-order", 200, "order", p.orderId))
  /\ UNCHANGED <<bids, projects, gatewayOrders>>

\* the in-memory store holds the projects and the bids, and no payment yet
InitMem ==
  /\ bids = InitBids
  /\ projects = InitProjects
  /\ payments = <<>>
  /\ gatewayOrders = 0
  /\ procs = EmptyBag
  /\ resp = Response("none", 0, "", 0)
  /\ requests = 0
  /\ hist = <<>>

NextMem ==
  \/ \E req \in CreateOrderRequests : StartCreateOrder(MaxInflight, req)
  \/ \E p \in Running : CreateOrderCheckDuplicate(p)
  \/ \E p \in Running : CreateOrderGateway(p)
  \/ \E p \in Running : MemCreateOrderInsert(p)

SpecMem == InitMem /\ [][NextMem]_vars

----------------------------------------------------------------------------
(* GET /api/payments and GET /api/payments/:id (routes.ts 747-830).  The    *)
(* handlers only read; the project and bid fields they check never change,  *)
(* so each answer is a function of the store at the moment the payments     *)
(* are read.  rows is the payments table the answer is computed from.       *)

SanitizePayment_AuditTrailForParties(payment, user) ==
  LET shown == [id |-> payment.id, projectId |-> payment.projectId,
                bidId |-> payment.bidId, payerId |-> payment.payerId,
                payeeId |-> payment.payeeId, amount |-> payment.amount,
                status |-> payment.status]
  IN IF payment.payerId = user \/ payment.payeeId = user
       THEN [f \in DOMAIN shown \cup {"auditTrail"} |->
               IF f = "auditTrail" THEN payment.auditTrail ELSE shown[f]]
       ELSE shown

\* routes.ts 777-792, 814-828: the fields of a payment row sent to user
SanitizePayment(payment, user) ==
  LET shown == [id |-> payment.id, projectId |-> payment.projectId,
                bidId |-> payment.bidId, payerId |-> payment.payerId,
                payeeId |-> payment.payeeId, amount |-> payment.amount,
                status |-> payment.status]
  IN IF payment.payerId = user
       THEN [f \in DOMAIN shown \cup {"auditTrail"} |->
               IF f = "auditTrail" THEN payment.auditTrail ELSE shown[f]]
       ELSE shown

Max(S) == CHOOSE x \in S : \A y \in S : y <= x

\* orderBy(desc(payments.createdAt)): rows are created in the order of their
\* ids
RECURSIVE Descending(_)
Descending(ks) ==
  IF ks = {} THEN <<>> ELSE <<Max(ks)>> \o Descending(ks \ {Max(ks)})

\* storage.ts 246-250
GetPaymentsForUser(rows, userId) ==
  {k \in DOMAIN rows : rows[k].payerId = userId \/ rows[k].payeeId = userId}

ReadReply(route, status, message) == Response(route, status, message, 0)

\* res.json(...): body is the sequence of the payments sent (the one payment,
\* for GET /api/payments/:id)
ReadBody(route, body) ==
  [route |-> route, status |-> 200, message |-> "", id |-> 0, body |-> body]

SanitizedPayments(rows, ks, user) ==
  LET order == Descending(ks)
  IN [i \in DOMAIN order |-> SanitizePayment(rows[order[i]], user)]

\* routes.ts 801-830
GetPaymentResponse(rows, req) ==
  IF req.id \notin DOMAIN rows
    THEN ReadReply("payment", 404, "Payment not found")
  ELSE IF rows[req.id].payerId # req.user /\ rows[req.id].payeeId # req.user
    THEN ReadReply("payment", 403,
                   "Unauthorized: You can only view your own payments")
  ELSE ReadBody("payment", <<SanitizePayment(rows[req.id], req.user)>>)

\* routes.ts 747-799; projectId is Null when the query names no project
ListPaymentsResponse(rows, req) ==
  IF req.projectId = Null
    THEN ReadBody("payments",
                  SanitizedPayments(rows, GetPaymentsForUser(rows, req.user),
                                    req.user))
  ELSE IF req.projectId \notin Projects
    THEN ReadReply("payments", 404, "Project not found")
  ELSE IF /\ projects[req.projectId].ownerId # req.user
          /\ {b \in Bids : /\ bids[b].projectId = req.projectId
                            /\ bids[b].supplierId = req.user} = {}
    THEN ReadReply("payments", 403,
                   "Unauthorized: No access to this project payments")
  ELSE ReadBody("payments", SanitizedPayments(rows,
         {k \in DOMAIN rows :
            /\ rows[k].projectId = req.projectId
            /\ \/ projects[req.projectId].ownerId = req.user
               \/ rows[k].payeeId = req.user},
         req.user))

GetPaymentRequests == [user : Users, id : 0..MaxPayments]

ListPaymentsRequests == [user : Users, projectId : Projects \cup {Null, NoSuchId}]

GetPayment(cap, req) ==
  /\ Receive(cap)
  /\ UNCHANGED <<store, gatewayOrders, hist>>
  /\ Reply(procs, GetPaymentResponse(payments, req))

ListPayments(cap, req) ==
  /\ Receive(cap)
  /\ UNCHANGED <<store, gatewayOrders, hist>>
  /\ Reply(procs, ListPaymentsResponse(payments, req))

\* the server with its read endpoints, one request at a time
NextRead ==
  \/ NextSeq
  \/ \E req \in GetPaymentRequests : GetPayment(1, req)
  \/ \E req \in ListPaymentsRequests : ListPayments(1, req)

SpecRead == Init /\ [][NextRead]_vars

----------------------------------------------------------------------------
(* POST /api/projects (routes.ts 215-235): insertProjectSchema keeps the    *)
(* status column (schema.ts 97-102), so the body may name the status of    *)
(* the new project.                                                        *)

NewProjects == {"p3"}             \* ids of projects created later

\* schema.ts 31; Null when the body names no status
ProjectStatuses == {Null, "open", "awarded"}

CreateProjectRequests == [user : Users, status : ProjectStatuses]

\* routes.ts 217: role 'company' or 'ngo', the users who own projects
CanCreateProject(user) == \E pr \in Projects : InitProjects[pr].ownerId = user

\* storage.ts 102-105: the row as inserted, status defaulting to 'open'
CreateProjectRow(id, req) ==
  id :> [ownerId |-> req.user,
         status |-> IF req.status = Null THEN "open" ELSE req.status,
         awardedBidId |-> Null]

CreateProject(cap, req) ==
  /\ Receive(cap)
  /\ UNCHANGED <<bids, payments, gatewayOrders, hist>>
  /\ IF ~CanCreateProject(req.user)
       THEN /\ UNCHANGED projects
            /\ Reply(procs, Response("projects", 403,
                        "Only companies and NGOs can create projects", 0))
       ELSE /\ \E id \in NewProjects \ DOMAIN projects :
                 projects' = projects @@ CreateProjectRow(id, req)
            /\ Reply(procs, Response("projects", 201, "", 0))

\* the server with project creation, one request at a time
NextProjects ==
  \/ NextSeq
  \/ \E req \in CreateProjectRequests : CreateProject(1, req)

SpecProjects == Init /\ [][NextProjects]_vars

----------------------------------------------------------------------------
(* The gateway takes more than one payment for an order (a further attempt *)
(* by the payer): confirmations for the same order then carry different    *)
(* payment ids, each validly signed.                                       *)

OtherPaymentIds == {"pay_B"}

VerifyOtherPayment(cap, k, g) == StartVerify(cap, VerifyFor(payments[k], g))

CapturedOtherPayment(cap, k, g) ==
  StartWebhook(cap, CapturedFor(payments[k], g))

NextIds ==
  \/ NextSeq
  \/ \E k \in DOMAIN payments, g \in OtherPaymentIds :
       VerifyOtherPayment(1, k, g)
  \/ \E k \in DOMAIN payments, g \in OtherPaymentIds :
       CapturedOtherPayment(1, k, g)

SpecIds == Init /\ [][NextIds]_vars

----------------------------------------------------------------------------
(* Retries.  An order has been created; the gateway delivers the           *)
(* payment.captured webhook for it again and again and the payer's client  *)
(* sends its confirmation again and again, one request being handled at a  *)
(* time.  A bid or project write of the handler that first settles the     *)
(* payment may fail: Promise.all rejects and the handler answers 500       *)
(* (routes.ts 611-614, 712-715).                                           *)

Idle(cap) == BagCardinality(procs) < cap /\ UNCHANGED requests

Redeliver(cap, k, g) ==
  /\ Idle(cap)
  /\ WebhookReceive(procs, CapturedFor(payments[k], g))

RetryVerify(cap, k, g) ==
  /\ Idle(cap)
  /\ VerifyLookup(procs, VerifyFor(payments[k], g))

\* the awaited write w of handler p is rejected by the store
AwardFails(p, w) ==
  /\ p.pc = "award"
  /\ w \in p.todo
  /\ p.payment.status = "created"
  /\ UNCHANGED <<store, gatewayOrders, hist, requests>>
  /\ Reply(Without(p),
           IF p.kind = "verify"
             THEN VerifyReply(500, "Failed to process payment verification")
             ELSE WebhookReply(500, "Failed to process webhook"))

\* handler p runs on from the awaited call that has returned
HandlerStep(p) ==
  \/ VerifyFetch(p)
  \/ VerifyReadAudit(p)
  \/ VerifyWriteStatus(p)
  \/ \E w \in AwardWrites : VerifyAward(p, w)
  \/ WebhookReadAudit(p)
  \/ WebhookWriteStatus(p)
  \/ WebhookMarkProcessed(p)
  \/ \E w \in AwardWrites : WebhookAward(p, w)

Redelivery == \E k \in DOMAIN payments, g \in PaymentIds : Redeliver(1, k, g)

Retry == \E k \in DOMAIN payments, g \in PaymentIds : RetryVerify(1, k, g)

Handling == \E p \in Running : HandlerStep(p)

InitLive == Init /\ Len(payments) = 1

NextLive ==
  \/ Redelivery
  \/ Retry
  \/ Handling
  \/ \E p \in Running, w \in AwardWrites : AwardFails(p, w)

\* the event loop runs a handler whose awaited call has returned; the
\* gateway and the client come back whenever the server is free again
SpecLive ==
  /\ InitLive
  /\ [][NextLive]_vars
  /\ WF_vars(Handling)
  /\ SF_vars(Redelivery)
  /\ SF_vars(Retry)

----------------------------------------------------------------------------
(* Properties                                                              *)

AllIdle == Running = {}

\* the non-failed payments of a bid
LivePayments(b) ==
  {k \in DOMAIN payments : payments[k].bidId = b /\ payments[k].status # "failed"}

\* the handler p has passed the 'not yet paid / not yet processed' check of
\* a confirmation and goes on to the writes
Confirming(p) ==
  \/ p.kind = "verify" /\ p.pc # "received"
  \/ /\ p.kind = "webhook" /\ p.pc # "received"
     /\ p.req.event = "payment.captured"

\* C1: every bid has at most one payment whose status is not 'failed'.
C1_OneLivePaymentPerBid ==
  \A b \in Bids : Cardinality(LivePayments(b)) <= 1

\* C2: of the confirmation handlers running for one payment, at most one has
\* passed the 'not yet paid / not yet processed' check.
C2_OneConfirmationPassesCheck ==
  \A p, q \in Running :
    (Confirming(p) /\ Confirming(q) /\ p.payment.id = q.payment.id)
      => (p = q /\ CopiesIn(p, procs) = 1)

\* the payment as the handler p found it had been paid by the other
\* confirmation path
PaidByOtherPath(p) ==
  /\ p.payment.status = "paid"
  /\ \E i \in DOMAIN p.payment.auditTrail :
       p.payment.auditTrail[i].action =
         IF p.kind = "webhook" THEN "payment_verified"
                               ELSE "webhook_payment_captured"

\* C3: a confirmation handler that found the payment already 'paid' through
\* the other path writes nothing: none of its steps changes a payment, a
\* bid or a project.
C3_LateConfirmationWritesNothing ==
  [][\A p \in Running :
       ( /\ Confirming(p) /\ PaidByOtherPath(p)
         /\ CopiesIn(p, procs') < CopiesIn(p, procs) )
         => UNCHANGED store]_vars

C5_SecondVerifyIsNoOp ==
  [][\A k \in DOMAIN payments, g \in PaymentIds :
       ( /\ resp = Response("verify", 200, "Payment verified successfully", k)
         /\ payments[k].razorpayPaymentId = g
         /\ StartVerify(1, VerifyFor(payments[k], g)) )
       => /\ resp' = VerifyReply(409, "Payment already verified")
          /\ procs' = procs
          /\ UNCHANGED store]_vars

\* a second confirmation was answered 409 after the first one had paid the
\* payment and awarded its bid once
C5_Witness ==
  /\ resp = VerifyReply(409, "Payment already verified")
  /\ \E k \in DOMAIN payments :
       /\ payments[k].status = "paid"
       /\ ~payments[k].webhookProcessed
       /\ hist[k] = 1
       /\ bids[payments[k].bidId].status = "accepted"

\* the payment.captured webhook with gateway payment id g has been
\* processed for payment k: both of its store calls are done
CapturedProcessed(k, g) ==
  /\ payments[k].webhookProcessed
  /\ payments[k].razorpayPaymentId = g
  /\ payments[k].auditTrail[Len(payments[k].auditTrail)].action =
       "webhook_payment_captured"

\* C6: when a payment.captured webhook has been processed and the same event
\* is delivered again, the redelivery is answered 'already_processed' at
\* once and leaves payments, bids and projects as they were.
C6_RedeliveryIsNoOp ==
  [][\A k \in DOMAIN payments, g \in PaymentIds :
       ( /\ CapturedProcessed(k, g)
         /\ StartWebhook(MaxInflight, CapturedFor(payments[k], g)) )
       => /\ resp' = WebhookReply(200, "already_processed")
          /\ procs' = procs
          /\ UNCHANGED store]_vars

\* a redelivered payment.captured webhook was answered 'already_processed'
\* for a payment that the webhook had paid
C6_Witness ==
  /\ resp = WebhookReply(200, "already_processed")
  /\ \E k \in DOMAIN payments, g \in PaymentIds :
       /\ CapturedProcessed(k, g)
       /\ payments[k].status = "paid"
       /\ hist[k] = 1

\* C7: the status of a payment is written to 'paid' at most once.
C7_PaidWrittenOnce ==
  \A k \in DOMAIN hist : hist[k] <= 1

\* C8: no step changes a payment whose status is 'paid' or 'failed' back to
\* 'created'.
C8_NeverBackToCreated ==
  [][\A k \in DOMAIN payments :
       payments[k].status \in {"paid", "failed"}
         => payments'[k].status # "created"]_vars

\* a payment was written again after it had left 'created'
C8_Witness ==
  \E k \in DOMAIN payments :
    /\ payments[k].status \in {"paid", "failed"}
    /\ Len(payments[k].auditTrail) >= 3

\* C9: a payment becomes 'failed' only by the status write of a webhook
\* handler for a payment.failed event that had read webhookProcessed = false.
C9_FailedOnlyByFailedWebhook ==
  [][\A k \in DOMAIN payments :
       (payments[k].status # "failed" /\ payments'[k].status = "failed")
         => \E p \in Running :
              /\ p.kind = "webhook"
              /\ p.req.event = "payment.failed"
              /\ p.payment.id = k
              /\ ~p.payment.webhookProcessed
              /\ WebhookWriteStatus(p)]_vars

\* a payment.failed webhook has set a payment to 'failed'
C9_Witness ==
  \E k \in DOMAIN payments :
    /\ payments[k].status = "failed"
    /\ payments[k].auditTrail[Len(payments[k].auditTrail)].action = "webhook_payment_failed"

\* C10: once the awardedBidId of a project is set, no step sets it back to
\* null.
C10_AwardedBidNeverCleared ==
  [][\A p \in Projects :
       projects[p].awardedBidId # Null => projects'[p].awardedBidId # Null]_vars

\* a project awarded by one request has been written again by another
C10_Witness ==
  \E p \in Projects :
    /\ projects[p].awardedBidId # Null
    /\ \A b \in Bids : bids[b].status = "accepted"

\* the step is the award write that sets the status of bid b to 'accepted',
\* executed by the manual award or by one of the two confirmation paths
AcceptWrite(b) ==
  \E p \in Running :
    \/ p.kind = "award" /\ p.bidId = b /\ AwardUpdateBid(p)
    \/ p.kind = "verify" /\ p.payment.bidId = b /\ VerifyAward(p, "updateBid")
    \/ p.kind = "webhook" /\ p.payment.bidId = b /\ WebhookAward(p, "updateBid")

\* C11: the award write that sets a bid to 'accepted' is executed at most
\* once: no request executes it for a bid that is already 'accepted'.
C11_AcceptedWrittenOnce ==
  [][\A b \in Bids : bids[b].status = "accepted" => ~AcceptWrite(b)]_vars

\* the step is the first segment of a create-order handler: a request has
\* arrived and was answered by create-order or left a create-order handler
\* at its first await
CreateOrderStarts ==
  /\ requests' # requests
  /\ IF procs' = procs
       THEN resp'.route = "create-order"
       ELSE \E q \in BagToSet(procs') :
              /\ q.kind = "create-order"
              /\ CopiesIn(q, procs') > CopiesIn(q, procs)

\* C12: with requests answered one after another, a create-order request by
\* the owner of the project for a pending bid of that project whose amount
\* differs from the price of the bid is answered with the amount-mismatch
\* error at once; the gateway is not called and no payment row is created.
C12_AmountMismatchRejected ==
  [][CreateOrderStarts => \A req \in CreateOrderRequests :
       ( /\ req.bidId \in Bids /\ req.projectId \in Projects
         /\ bids[req.bidId].projectId = req.projectId
         /\ projects[req.projectId].ownerId = req.user
         /\ bids[req.bidId].status = "pending"
         /\ req.amount # bids[req.bidId].price
         /\ StartCreateOrder(1, req) )
       => /\ resp' = CreateOrderReply(400, "Payment amount must match bid price")
          /\ procs' = procs
          /\ UNCHANGED <<payments, gatewayOrders>>]_vars

\* a create-order request has been answered with the amount-mismatch error
C12_Witness ==
  resp = CreateOrderReply(400, "Payment amount must match bid price")

\* C13: a create-order request naming an existing bid and a project that the
\* requester does not own is answered 403 Forbidden and creates no payment
\* row, whatever its other fields are.
C13_NonOwnerForbidden ==
  [][CreateOrderStarts => \A req \in CreateOrderRequests :
       ( /\ req.bidId \in Bids /\ req.projectId \in Projects
         /\ projects[req.projectId].ownerId # req.user
         /\ StartCreateOrder(MaxInflight, req) )
       => /\ resp' = CreateOrderReply(403, "Only project owner can create payments")
          /\ UNCHANGED payments]_vars

\* C14: with requests answered one after another, a create-order call for a
\* bid that has a payment in status 'created' is answered with the
\* duplicate-payment conflict and creates no row; a create-order call for a
\* pending bid all of whose payments are 'failed' passes the duplicate check
\* and, the gateway having created the order, is answered with the order
\* and stores a new payment in status 'created' for the bid.
C14_DuplicateUntilFailed ==
  [][\A p \in Running :
       /\ ( /\ CreateOrderCheckDuplicate(p)
            /\ \E k \in DOMAIN payments :
                 payments[k].bidId = p.req.bidId /\ payments[k].status = "created" )
          => /\ resp' = CreateOrderReply(409, "Payment already exists for this bid")
             /\ procs' = Without(p)
             /\ UNCHANGED payments
       /\ ( /\ CreateOrderCheckDuplicate(p)
            /\ \E k \in DOMAIN payments : payments[k].bidId = p.req.bidId
            /\ LivePayments(p.req.bidId) = {} )
          => /\ procs' = Without(p) (+) SetToBag({[p EXCEPT !.pc = "orders.create"]})
             /\ UNCHANGED <<resp, payments>>
       /\ CreateOrderInsert(p)
          => /\ Len(payments') = Len(payments) + 1
             /\ payments'[Len(payments')].bidId = p.req.bidId
             /\ payments'[Len(payments')].status = "created"
             /\ \A k \in DOMAIN payments : payments'[k] = payments[k]
             /\ resp' = Response("create-order", 200, "order", p.orderId)]_vars

\* a create-order call has been answered with an order for a bid whose
\* earlier payment had failed
C14_Witness ==
  /\ resp.route = "create-order" /\ resp.status = 200
  /\ \E j, k \in DOMAIN payments :
       /\ j < k
       /\ payments[j].bidId = payments[k].bidId
       /\ payments[j].status = "failed"
       /\ payments[k].status = "created"
       /\ bids[payments[k].bidId].status = "pending"

\* the precondition of create-order that a request violates first, in the
\* order bid exists, project exists, bid belongs to project, requester owns
\* project, bid is pending, amount equals price; 0 when it violates none
FirstViolated(req) ==
  IF req.bidId \notin Bids THEN 1
  ELSE IF req.projectId \notin Projects THEN 2
  ELSE IF bids[req.bidId].projectId # req.projectId THEN 3
  ELSE IF projects[req.projectId].ownerId # req.user THEN 4
  ELSE IF bids[req.bidId].status # "pending" THEN 5
  ELSE IF req.amount # bids[req.bidId].price THEN 6
  ELSE 0

\* the error response of each precondition
PreconditionError ==
  <<CreateOrderReply(404, "Bid not found"),
    CreateOrderReply(404, "Project not found"),
    CreateOrderReply(400, "Bid does not belong to specified project"),
    CreateOrderReply(403, "Only project owner can create payments"),
    CreateOrderReply(400, "Can only create payment for pending bids"),
    CreateOrderReply(400, "Payment amount must match bid price"),
    CreateOrderReply(409, "Payment already exists for this bid")>>

\* C15: with requests answered one after another, create-order answers a
\* request that violates one of its first six preconditions with the error
\* of the first one violated, in the order bid exists, project exists, bid
\* belongs to project, requester owns project, bid is pending, amount equals
\* price; only a request that violates none of them reaches the
\* duplicate-payment check, which comes last; no rejection creates a payment
\* row.
C15_PreconditionOrder ==
  [][/\ CreateOrderStarts => \A req \in CreateOrderRequests :
          StartCreateOrder(1, req)
            => /\ UNCHANGED payments
               /\ IF FirstViolated(req) # 0
                    THEN /\ resp' = PreconditionError[FirstViolated(req)]
                         /\ procs' = procs
                    ELSE /\ resp' = resp
                         /\ procs' = SetToBag({[kind |-> "create-order",
                                                 pc |-> "getPaymentsForProject",
                                                 req |-> req,
                                                 payeeId |-> bids[req.bidId].supplierId,
                                                 orderId |-> 0]})
     /\ \A p \in Running :
          ( /\ CreateOrderCheckDuplicate(p)
            /\ LivePayments(p.req.bidId) # {} )
          => /\ resp' = PreconditionError[7]
             /\ procs' = Without(p)
             /\ UNCHANGED payments]_vars

\* a request that passed the first six preconditions has been rejected by
\* the last one
C15_Witness ==
  /\ resp = PreconditionError[7]
  /\ \E b \in Bids : LivePayments(b) # {} /\ bids[b].status = "pending"

\* C16: every payment row has the owner of its project as payer and the
\* supplier of its bid as payee, and its bid belongs to its project.
C16_PayerIsOwnerPayeeIsSupplier ==
  \A k \in DOMAIN payments :
    /\ payments[k].payerId = projects[payments[k].projectId].ownerId
    /\ payments[k].payeeId = bids[payments[k].bidId].supplierId
    /\ bids[payments[k].bidId].projectId = payments[k].projectId

\* create-order has just stored a payment row and returned its order
C16_Witness ==
  /\ resp.route = "create-order" /\ resp.status = 200
  /\ \E k \in DOMAIN payments :
       /\ payments[k].razorpayOrderId = resp.id
       /\ payments[k].payerId # payments[k].payeeId

\* C17: when the gateway call of a create-order request fails after all
\* preconditions passed (the handler does not go on with an order of the
\* gateway), whether or not the gateway created the order, the request is
\* answered with an error and ends, and the payment rows are unchanged.
C17_GatewayFailureStoresNothing ==
  [][\A p \in Running :
       ( /\ CreateOrderGateway(p)
         /\ procs' # Without(p) (+)
                       SetToBag({[p EXCEPT !.pc = "createPayment",
                                           !.orderId = gatewayOrders + 1]}) )
       => /\ resp' = CreateOrderReply(500, "Failed to create payment order")
          /\ procs' = Without(p)
          /\ UNCHANGED payments]_vars

\* a create-order request has been answered with the gateway error, the
\* gateway has an order that no payment row refers to, and no request is in
\* flight
C17_Witness ==
  /\ resp = CreateOrderReply(500, "Failed to create payment order")
  /\ AllIdle
  /\ gatewayOrders > Len(payments)

\* C18: the step in which create-order stores a payment answers the request
\* with the order and appends one row, which has status 'created',
\* webhookProcessed = false, no gateway payment id, and an audit trail of
\* exactly one entry, 'payment_order_created' by the requester.
C18_InitialPaymentRow ==
  [][Len(payments') = Len(payments) + 1 =>
       \E p \in Running :
         /\ p.kind = "create-order" /\ p.pc = "createPayment"
         /\ procs' = Without(p)
         /\ resp' = Response("create-order", 200, "order", p.orderId)
         /\ payments'[Len(payments')].status = "created"
         /\ payments'[Len(payments')].webhookProcessed = FALSE
         /\ payments'[Len(payments')].razorpayPaymentId = Null
         /\ payments'[Len(payments')].auditTrail =
              <<[action |-> "payment_order_created", userId |-> p.req.user]>>]_vars

\* s is a prefix of t
IsPrefix(s, t) ==
  /\ Len(s) <= Len(t)
  /\ \A i \in 1..Len(s) : s[i] = t[i]

\* C19: the audit trail of a payment is append-only: in every step the
\* trail before the step is a prefix of the trail after it.
C19_AuditTrailAppendOnly ==
  [][\A k \in DOMAIN payments :
       IsPrefix(payments[k].auditTrail, payments'[k].auditTrail)]_vars

\* C20: a confirmation by the payer of a payment that is not yet paid whose
\* signature is malformed makes the signature verifier yield false, and the
\* request is answered with the invalid-signature rejection, not with an
\* internal error.
C20_MalformedSignatureIsRejected ==
  [][\A k \in DOMAIN payments, g \in PaymentIds :
       ( /\ ~AlreadyVerified(payments[k])
         /\ StartVerify(MaxInflight,
                        [VerifyFor(payments[k], g) EXCEPT !.signature = Malformed]) )
       => /\ VerifyRazorpaySignature(payments[k].razorpayOrderId, g, Malformed)
               = "false"
          /\ resp' = VerifyReply(400, "Payment signature verification failed")]_vars

\* the step is the first segment of a verify handler
VerifyStarts ==
  /\ requests' # requests
  /\ IF procs' = procs
       THEN resp'.route = "verify"
       ELSE \E q \in BagToSet(procs') :
              /\ q.kind = "verify"
              /\ CopiesIn(q, procs') > CopiesIn(q, procs)

\* C21: a confirmation by the payer of a payment that is not yet paid whose
\* signature does not verify is answered with the invalid-signature
\* rejection and changes no payment, bid or project.
C21_BadSignatureRejected ==
  [][VerifyStarts => \A req \in VerifyRequests :
       ( /\ GetPaymentByRazorpayOrderId(req.orderId) # 0
         /\ payments[GetPaymentByRazorpayOrderId(req.orderId)].payerId = req.user
         /\ ~AlreadyVerified(payments[GetPaymentByRazorpayOrderId(req.orderId)])
         /\ req.signature # Hmac(<<req.orderId, "|", req.paymentId>>)
         /\ StartVerify(MaxInflight, req) )
       => /\ resp' = VerifyReply(400, "Payment signature verification failed")
          /\ procs' = procs
          /\ UNCHANGED store]_vars

\* C22: a confirmation for an existing payment sent by a user who is not its
\* payer is answered 403 Forbidden at once, whether or not the payment is
\* already paid and whatever its signature is, and changes no payment, bid
\* or project.  (Stated as: a step that receives a confirmation either is
\* that answer or is the handling of no such request.)
C22_NonPayerForbidden ==
  [][VerifyStarts =>
       \/ /\ resp' = VerifyReply(403, "Unauthorized: You can only verify your own payments")
          /\ procs' = procs
          /\ UNCHANGED store
       \/ \A req \in VerifyRequests :
            ~ ( /\ GetPaymentByRazorpayOrderId(req.orderId) # 0
                /\ payments[GetPaymentByRazorpayOrderId(req.orderId)].payerId
                     # req.user
                /\ StartVerify(MaxInflight, req) )]_vars

\* a confirmation has been answered 403 while the only payment is paid
C22_Witness ==
  /\ resp = VerifyReply(403, "Unauthorized: You can only verify your own payments")
  /\ Len(payments) = 1
  /\ payments[1].status = "paid"

\* a step that receives a webhook request
WebhookStarts ==
  /\ requests' # requests
  /\ IF procs' = procs
       THEN resp'.route = "webhook"
       ELSE \E q \in BagToSet(procs') :
              /\ q.kind = "webhook"
              /\ CopiesIn(q, procs') > CopiesIn(q, procs)

\* the signature of the sender who holds the secret: the HMAC of the bytes
\* of the body as sent
GatewaySignature(req) ==
  Hmac(RawBody(req.encoding, WebhookBody(req.event, req.orderId,
                                         req.paymentId, req.amount,
                                         req.wellFormed)))

\* C23: a webhook request that carries no signature header, or a signature
\* that is not the HMAC of its body, is refused: it is not answered with
\* success, no handler work is left running for it, and payments, bids and
\* projects stay as they were, whatever event and order id the body names.
\* (Stated as: a step that receives a webhook either is such a refusal or is
\* the handling of no such request.)
C23_UnsignedWebhookRejected ==
  [][WebhookStarts =>
       \/ /\ resp'.route = "webhook"
          /\ resp'.status # 200
          /\ procs' = procs
          /\ UNCHANGED store
       \/ \A req \in WebhookRequests :
            ~ ( /\ req.signature # GatewaySignature(req)
                /\ StartWebhook(MaxInflight, req) )]_vars

\* a forged webhook for an order with an open payment was refused
C23_Witness ==
  /\ resp = WebhookReply(400, "Invalid webhook signature")
  /\ \E k \in DOMAIN payments :
       payments[k].status = "created" /\ ~payments[k].webhookProcessed

\* C24: every webhook request that is unsigned, wrongly signed, signed with
\* a malformed signature or has a malformed body is answered with the
\* validation rejection (400), and, no store operation failing, no webhook
\* request is answered with the internal error (500).
C24_RejectionNotInternalError ==
  [][WebhookStarts =>
       /\ \A req \in WebhookRequests :
            ( /\ \/ req.signature # GatewaySignature(req)
                 \/ ~req.wellFormed
              /\ StartWebhook(MaxInflight, req) )
            => resp'.status = 400
       /\ resp'.route = "webhook" => resp'.status # 500]_vars

\* C25: a payment.captured or payment.failed webhook that carries the HMAC
\* of its body and names an order no payment has is answered with success
\* and leaves payments, bids and projects as they were, adding no row.
C25_UnknownOrderAcknowledged ==
  [][WebhookStarts => \A req \in WebhookRequests :
       ( /\ req.signature = GatewaySignature(req)
         /\ req.wellFormed
         /\ req.event \in {"payment.captured", "payment.failed"}
         /\ GetPaymentByRazorpayOrderId(req.orderId) = 0
         /\ StartWebhook(MaxInflight, req) )
       => /\ resp'.route = "webhook"
          /\ resp'.status = 200
          /\ procs' = procs
          /\ UNCHANGED store]_vars

\* C26: a payment.captured webhook that carries the HMAC of its body, for an
\* order whose payment is not yet webhook-processed, with an amount other
\* than the stored amount times 100, is refused and leaves payments, bids
\* and projects as they were; a delivery with the right amount that follows
\* the refusal is taken up for processing.  (First part stated as: a step
\* that receives a webhook either is such a refusal or is the handling of no
\* such request.)
C26_AmountMismatchRejected ==
  [][WebhookStarts =>
       /\ \/ /\ resp'.route = "webhook"
             /\ resp'.status = 400
             /\ procs' = procs
             /\ UNCHANGED store
          \/ \A req \in WebhookRequests :
               LET k == GetPaymentByRazorpayOrderId(req.orderId)
               IN ~ ( /\ req.event = "payment.captured"
                      /\ req.wellFormed
                      /\ k # 0
                      /\ ~payments[k].webhookProcessed
                      /\ req.amount # payments[k].amount * 100
                      /\ req.signature = GatewaySignature(req)
                      /\ StartWebhook(MaxInflight, req) )
       /\ resp = WebhookReply(400, "Amount mismatch") =>
            \A k \in DOMAIN payments, g \in PaymentIds :
              ( /\ GetPaymentByRazorpayOrderId(payments[k].razorpayOrderId) = k
                /\ ~payments[k].webhookProcessed
                /\ StartWebhook(MaxInflight, CapturedFor(payments[k], g)) )
              => \E q \in BagToSet(procs') :
                   /\ q.kind = "webhook" /\ q.pc = "settle"
                   /\ q.payment = payments[k]
                   /\ CopiesIn(q, procs') > CopiesIn(q, procs)]_vars

\* a webhook was refused for its amount while the payment awaits its webhook
C26_Witness ==
  /\ resp = WebhookReply(400, "Amount mismatch")
  /\ \E k \in DOMAIN payments :
       payments[k].status = "created" /\ ~payments[k].webhookProcessed

\* C30: a webhook whose signature is the HMAC of the bytes of its body as
\* sent passes the signature check, however the sender wrote the JSON value.
C30_RawBodySignatureAccepted ==
  [][WebhookStarts => \A req \in WebhookRequests :
       ( /\ req.signature = GatewaySignature(req)
         /\ StartWebhook(MaxInflight, req) )
       => resp' # WebhookReply(400, "Invalid webhook signature")]_vars

\* the handler p takes the step
Leaves(p) == CopiesIn(p, procs') < CopiesIn(p, procs)

\* C27: handling a payment.failed webhook, requests being answered one after
\* another: no step of it changes a bid or a project; it is taken up only
\* for a payment whose webhookProcessed was false, and when it ends that
\* payment is 'failed', webhookProcessed, and its audit trail is the one it
\* had plus one 'webhook_payment_failed' entry, all else as before; when
\* webhookProcessed was already true, receiving it starts no work and leaves
\* payments, bids and projects as they were.
C27_FailedWebhookFrame ==
  [][/\ \A p \in Running :
          (p.kind = "webhook" /\ p.req.event = "payment.failed" /\ Leaves(p))
          => /\ UNCHANGED <<bids, projects>>
             /\ ~p.payment.webhookProcessed
             /\ procs' = Without(p) =>
                  payments' =
                    [payments EXCEPT ![p.payment.id] =
                       [p.payment EXCEPT
                          !.status = "failed",
                          !.webhookProcessed = TRUE,
                          !.auditTrail =
                             Append(@, [action |-> "webhook_payment_failed",
                                        userId |-> Null])]]
     /\ WebhookStarts =>
          \/ procs' = procs /\ UNCHANGED store
          \/ \A req \in WebhookRequests :
               LET k == GetPaymentByRazorpayOrderId(req.orderId)
               IN ~ ( /\ req.event = "payment.failed"
                      /\ \/ k = 0
                         \/ payments[k].webhookProcessed
                      /\ StartWebhook(1, req) )]_vars

\* a payment.failed webhook has been handled to the end for a payment whose
\* bid is still pending
C27_Witness ==
  /\ AllIdle
  /\ resp = WebhookReply(200, "ok")
  /\ \E k \in DOMAIN payments :
       /\ payments[k].status = "failed"
       /\ payments[k].webhookProcessed
       /\ Len(payments[k].auditTrail) = 2
       /\ payments[k].auditTrail[2] =
            [action |-> "webhook_payment_failed", userId |-> Null]
       /\ bids[payments[k].bidId].status = "pending"
       /\ projects[payments[k].projectId].status # "awarded"

\* C28: requests being answered one after another, when the handling of a
\* payment.captured webhook taken up for a payment that was 'created' and
\* not webhookProcessed ends, that payment is 'paid' with the event's payment
\* id as gateway payment id, webhookProcessed, and its audit trail is the
\* one it had plus one 'webhook_payment_captured' entry; its bid is
\* 'accepted' and its project 'awarded' with that bid as awardedBidId.
C28_CapturedWebhookPostcondition ==
  [][\A p \in Running, w \in AwardWrites :
       ( /\ p.kind = "webhook"
         /\ p.req.event = "payment.captured"
         /\ p.payment.status = "created"
         /\ ~p.payment.webhookProcessed
         /\ p.todo = {w}
         /\ WebhookAward(p, w) )
       => /\ payments'[p.payment.id] =
               [p.payment EXCEPT
                  !.status = "paid",
                  !.razorpayPaymentId = p.req.paymentId,
                  !.webhookProcessed = TRUE,
                  !.auditTrail =
                     Append(@, [action |-> "webhook_payment_captured",
                                userId |-> Null])]
          /\ bids'[p.payment.bidId].status = "accepted"
          /\ projects'[p.payment.projectId].status = "awarded"
          /\ projects'[p.payment.projectId].awardedBidId = p.payment.bidId
          /\ resp' = WebhookReply(200, "ok")]_vars

\* a payment.captured webhook has been handled to the end for a payment that
\* no confirmation had touched before
C28_Witness ==
  /\ AllIdle
  /\ resp = WebhookReply(200, "ok")
  /\ \E k \in DOMAIN payments :
       /\ payments[k].status = "paid"
       /\ payments[k].razorpayPaymentId \in PaymentIds
       /\ payments[k].webhookProcessed
       /\ Len(payments[k].auditTrail) = 2
       /\ payments[k].auditTrail[2] =
            [action |-> "webhook_payment_captured", userId |-> Null]
       /\ bids[payments[k].bidId].status = "accepted"
       /\ projects[payments[k].projectId].awardedBidId = payments[k].bidId

\* a step that answers a read request
ReadStarts == requests' # requests /\ resp'.route \in {"payment", "payments"}

\* the payments table with the audit trail of row k replaced
WithAuditTrail(rows, k, trail) == [rows EXCEPT ![k].auditTrail = trail]

\* other audit trails row k might have
OtherAuditTrails(k) ==
  {<<>>,
   Append(payments[k].auditTrail,
          [action |-> "payment_verified", userId |-> payments[k].payerId])}
    \ {payments[k].auditTrail}

\* a payment as sent carries its audit trail exactly when user is its payer
TrailOnlyForPayer(sent, user) ==
  "auditTrail" \in DOMAIN sent <=> sent.payerId = user

\* C29: the answers of GET /api/payments/:id and GET /api/payments carry the
\* auditTrail of a payment only when the requester is its payer: for a
\* requester who is not the payer of a payment the answer is the same
\* whatever audit trail that payment has; and GET /api/payments/:id for an
\* existing payment answers 403 to a requester who is neither its payer nor
\* its payee.
C29_AuditTrailOnlyForPayer ==
  [][ReadStarts =>
       /\ \A req \in GetPaymentRequests :
            GetPayment(1, req) =>
              /\ \A k \in DOMAIN payments : \A t \in OtherAuditTrails(k) :
                   payments[k].payerId # req.user =>
                     resp' = GetPaymentResponse(WithAuditTrail(payments, k, t),
                                                req)
              /\ "body" \in DOMAIN resp' =>
                   TrailOnlyForPayer(resp'.body[1], req.user)
              /\ ( /\ req.id \in DOMAIN payments
                   /\ payments[req.id].payerId # req.user
                   /\ payments[req.id].payeeId # req.user )
                 => resp' = ReadReply("payment", 403,
                      "Unauthorized: You can only view your own payments")
       /\ \A req \in ListPaymentsRequests :
            ListPayments(1, req) =>
              /\ \A k \in DOMAIN payments : \A t \in OtherAuditTrails(k) :
                   payments[k].payerId # req.user =>
                     resp' = ListPaymentsResponse(
                               WithAuditTrail(payments, k, t), req)
              /\ "body" \in DOMAIN resp' =>
                   \A i \in DOMAIN resp'.body :
                     TrailOnlyForPayer(resp'.body[i], req.user)]_vars

\* the payee has read a payment that has an audit trail and was sent it
\* without the trail
C29_Witness ==
  /\ resp.route = "payment" /\ resp.status = 200
  /\ \E k \in DOMAIN payments :
       /\ Len(payments[k].auditTrail) = 2
       /\ resp.body = <<SanitizePayment(payments[k], payments[k].payeeId)>>
       /\ "auditTrail" \notin DOMAIN resp.body[1]

\* a handler of one of the two verification paths
PaymentFlow(p) == p.kind \in {"verify", "webhook"}

\* C31: the verification paths write the payment status first, then the
\* bid, then the project: when a handler of either path writes the project
\* its bid is already 'accepted', and when it writes the bid its payment is
\* already 'paid'.
C31_AwardWriteOrder ==
  [][\A p \in Running :
       (PaymentFlow(p) /\ Leaves(p))
       => /\ projects' # projects =>
               bids[p.payment.bidId].status = "accepted"
          /\ bids' # bids =>
               payments[p.payment.id].status = "paid"]_vars

\* C32: a payment that is 'paid' stays 'paid' whatever request is handled
\* next.
C32_PaidIsTerminal ==
  [][\A k \in DOMAIN payments :
       payments[k].status = "paid" => payments'[k].status = "paid"]_vars

\* C33: in every reachable state each project has at most one bid with
\* status 'accepted'.
C33_OneAcceptedBidPerProject ==
  \A pr \in Projects :
    Cardinality({b \in Bids : /\ bids[b].projectId = pr
                              /\ bids[b].status = "accepted"}) <= 1

\* C34: once a project's awardedBidId names a bid, no step changes it to
\* another bid.
C34_AwardedBidNeverReplaced ==
  [][\A pr \in Projects :
       projects[pr].awardedBidId # Null
       => projects'[pr].awardedBidId = projects[pr].awardedBidId]_vars

\* C36: in every reachable state a payment with webhookProcessed = true has
\* status 'paid' or 'failed'.
C36_ProcessedIsSettled ==
  \A k \in DOMAIN payments :
    payments[k].webhookProcessed => payments[k].status \in {"paid", "failed"}

\* C35: in every reachable state a project has status 'awarded' exactly
\* when its awardedBidId is set, and an awardedBidId names a bid of that
\* project.
C35_AwardedIffAwardedBid ==
  \A pr \in DOMAIN projects :
    /\ projects[pr].status = "awarded" <=> projects[pr].awardedBidId # Null
    /\ projects[pr].awardedBidId # Null =>
         /\ projects[pr].awardedBidId \in Bids
         /\ bids[projects[pr].awardedBidId].projectId = pr

\* C38: a payment that is 'created' has no gateway payment id, a payment
\* that is 'paid' has one, and a gateway payment id once set is never
\* replaced by another.
C38_GatewayPaymentId ==
  [][\A k \in DOMAIN payments' :
       /\ payments'[k].status = "created" =>
            payments'[k].razorpayPaymentId = Null
       /\ payments'[k].status = "paid" =>
            payments'[k].razorpayPaymentId # Null
       /\ (k \in DOMAIN payments /\ payments[k].razorpayPaymentId # Null) =>
            payments'[k].razorpayPaymentId = payments[k].razorpayPaymentId]_vars

\* C37: with the webhook redelivered and the confirmation retried for ever,
\* a payment that has become 'paid' leads to its bid being 'accepted' and
\* its project 'awarded', also when a bid or project write of the first
\* attempt failed.
C37_PaidLeadsToAward ==
  (Len(payments) = 1 /\ payments[1].status = "paid")
    ~> ( /\ bids[payments[1].bidId].status = "accepted"
         /\ projects[payments[1].projectId].status = "awarded" )

====
